---- MODULE Spec2Model ----
(***************************************************************************)
(* A model of app.py, the Streamlit "Output CSV Viewer": one script run    *)
(* is a sequence of steps (folder check, glob, index, selection, load,     *)
(* display options, present, render); every user interaction with a       *)
(* widget starts a new run of the script from the top.                     *)
(*                                                                         *)
(* File names are sequences of one-character strings, so that the regular  *)
(* expression, the glob pattern, lowercasing and the orderings are         *)
(* computed on the characters as the code computes them.                   *)
(***************************************************************************)
EXTENDS Integers, Sequences, FiniteSets, TLC

VARIABLES
    caseSensitive,    \* platform: does Path.glob / Path ordering distinguish case
    dirKind,          \* "missing" | "file" | "dir": what OUTPUT_DIR is on disk
    entries,          \* names of the entries directly inside OUTPUT_DIR
    content,          \* entries -> what pd.read_csv finds in the file
    widgets,          \* session state of the four widgets
    pc,               \* position of the current script run
    rendered,         \* UI elements the current run has emitted
    csv_paths, date_to_files, available_dates,
    selected_date, files_for_date, selected_file,
    df, show_rows, show_all_cols,
    df_to_show, missing_columns,
    preview, download

vars == <<caseSensitive, dirKind, entries, content, widgets, pc, rendered,
          csv_paths, date_to_files, available_dates,
          selected_date, files_for_date, selected_file,
          df, show_rows, show_all_cols, df_to_show, missing_columns,
          preview, download>>

-----------------------------------------------------------------------------
(* Characters and strings                                                  *)

Digits == <<"0", "1", "2", "3", "4", "5", "6", "7", "8", "9">>

UpperLetters ==
    <<"A", "B", "C", "D", "E", "F", "G", "H", "I", "J", "K", "L", "M",
      "N", "O", "P", "Q", "R", "S", "T", "U", "V", "W", "X", "Y", "Z">>

LowerLetters ==
    <<"a", "b", "c", "d", "e", "f", "g", "h", "i", "j", "k", "l", "m",
      "n", "o", "p", "q", "r", "s", "t", "u", "v", "w", "x", "y", "z">>

InSeq(seq, c) == \E i \in 1..Len(seq) : seq[i] = c

IndexOf(seq, c) == CHOOSE i \in 1..Len(seq) : seq[i] = c

\* \d of the regular expression, on the characters the model uses
IsDigit(c) == InSeq(Digits, c)

\* ord(c): the code point, which is what str comparison orders by
CodePoint(c) ==
    IF c = "\n" THEN 10
    ELSE IF c = "-" THEN 45
    ELSE IF c = "." THEN 46
    ELSE IF InSeq(Digits, c) THEN 47 + IndexOf(Digits, c)
    ELSE IF InSeq(UpperLetters, c) THEN 64 + IndexOf(UpperLetters, c)
    ELSE 96 + IndexOf(LowerLetters, c)

\* str.lower() on one character
ToLower(c) ==
    IF InSeq(UpperLetters, c) THEN LowerLetters[IndexOf(UpperLetters, c)] ELSE c

\* str.lower()
LowerStr(s) == [i \in 1..Len(s) |-> ToLower(s[i])]

\* s < t for two str values: lexicographic by code point
StrLess(s, t) ==
    \E k \in 1..(Len(t)) :
        /\ \A i \in 1..(k - 1) : i <= Len(s) /\ s[i] = t[i]
        /\ \/ k = Len(s) + 1
           \/ k <= Len(s) /\ CodePoint(s[k]) < CodePoint(t[k])

-----------------------------------------------------------------------------
(* DATE_SUFFIX_RE = (\d{4}-\d{2}-\d{2})\.csv$ with re.IGNORECASE           *)

DotCsv == <<".", "c", "s", "v">>

\* \d{4}-\d{2}-\d{2} matches s at position i
IsDateAt(s, i) ==
    /\ \A k \in {0, 1, 2, 3, 5, 6, 8, 9} : IsDigit(s[i + k])
    /\ s[i + 4] = "-"
    /\ s[i + 7] = "-"

\* $ without re.MULTILINE: the end of the string, or just before a final newline
AtEnd(s, k) == k = Len(s) + 1 \/ (k = Len(s) /\ s[k] = "\n")

\* the whole pattern matches s starting at position i
MatchAt(s, i) ==
    /\ i >= 1
    /\ i + 13 <= Len(s)
    /\ IsDateAt(s, i)
    /\ LowerStr(SubSeq(s, i + 10, i + 13)) = DotCsv
    /\ AtEnd(s, i + 14)

\* DATE_SUFFIX_RE.search(name) is not None
DATE_SUFFIX_RE_search(s) == \E i \in 1..Len(s) : MatchAt(s, i)

\* a group that ends after the month
MatchGroup1_Mut(s) ==
    LET i == CHOOSE j \in 1..Len(s) :
                 MatchAt(s, j) /\ \A h \in 1..(j - 1) : ~MatchAt(s, h)
    IN  SubSeq(s, i, i + 6)

\* m.group(1) of the leftmost match
MatchGroup1(s) ==
    LET i == CHOOSE j \in 1..Len(s) :
                 MatchAt(s, j) /\ \A h \in 1..(j - 1) : ~MatchAt(s, h)
    IN  SubSeq(s, i, i + 9)

-----------------------------------------------------------------------------
(* OUTPUT_DIR.glob("*.csv") and sorted()                                   *)

\* a name matches the glob pattern *.csv: pathlib compares the pattern with
\* the name as is on a case-sensitive platform and case-folded otherwise
GlobMatchesCsv(name) ==
    /\ Len(name) >= 4
    /\ LET tail == SubSeq(name, Len(name) - 3, Len(name))
       IN  IF caseSensitive THEN tail = DotCsv ELSE LowerStr(tail) = DotCsv

\* the key Path.__lt__ compares two entries of one folder by
PathKey(name) == IF caseSensitive THEN name ELSE LowerStr(name)

\* sorted(S) for a set of paths of one folder
RECURSIVE SortedPaths(_)
SortedPaths(S) ==
    IF S = {} THEN <<>>
    ELSE LET m == CHOOSE x \in S :
                      \A y \in S : ~StrLess(PathKey(y), PathKey(x))
         IN  <<m>> \o SortedPaths(S \ {m})

\* line 20
GatherCsvPaths(es) ==
    SortedPaths({p \in es : GlobMatchesCsv(p) /\ DATE_SUFFIX_RE_search(p)})

-----------------------------------------------------------------------------
(* The index: date -> files, the dates, the files of one date              *)

\* the keys of date_to_files (lines 28-33)
DateKeys(paths) ==
    {MatchGroup1(paths[i]) :
        i \in {j \in 1..Len(paths) : DATE_SUFFIX_RE_search(paths[j])}}

\* lines 27-33: every path is appended, in csv_paths order, to its date's list
BuildDateToFiles(paths) ==
    [d \in DateKeys(paths) |->
        SelectSeq(paths,
                  LAMBDA p : DATE_SUFFIX_RE_search(p) /\ MatchGroup1(p) = d)]

\* line 35: sorted(date_to_files.keys(), reverse=True)
RECURSIVE SortedDatesDesc(_)
SortedDatesDesc(S) ==
    IF S = {} THEN <<>>
    ELSE LET m == CHOOSE x \in S : \A y \in S : ~StrLess(x, y)
         IN  <<m>> \o SortedDatesDesc(S \ {m})

\* a sort key that keeps the case of the name
NameKey_Mut(name) == name

\* the sort key of line 43: x.name.lower()
NameKey(name) == LowerStr(name)

\* one insertion of a stable sort: x goes behind every element whose key is
\* not greater than its own
RECURSIVE InsertByKey(_, _)
InsertByKey(s, x) ==
    IF s = <<>> THEN <<x>>
    ELSE IF StrLess(NameKey(x), NameKey(Head(s))) THEN <<x>> \o s
    ELSE <<Head(s)>> \o InsertByKey(Tail(s), x)

RECURSIVE StableSortFrom(_, _)
StableSortFrom(rest, acc) ==
    IF rest = <<>> THEN acc
    ELSE StableSortFrom(Tail(rest), InsertByKey(acc, Head(rest)))

\* line 43: sorted(date_to_files[selected_date], key=lambda x: x.name.lower())
SortedByLowerName(files) == StableSortFrom(files, <<>>)

\* st.selectbox(label, options, index=0): the user's choice while it is one of
\* the options, the first option otherwise
Selectbox(options, choice) ==
    IF \E i \in 1..Len(options) : options[i] = choice THEN choice ELSE options[1]

-----------------------------------------------------------------------------
(* Tables                                                                  *)

\* a cell of a data frame: a finite float num/den (den a power of two), an
\* infinity (num is its sign), NaN, or a text that is not a number
NumCell(n, d) == [kind |-> "num", num |-> n, den |-> d, text |-> ""]
InfCell(sign) == [kind |-> "inf", num |-> sign, den |-> 1, text |-> ""]
NaNCell == [kind |-> "nan", num |-> 0, den |-> 1, text |-> ""]
StrCell(t) == [kind |-> "str", num |-> 0, den |-> 1, text |-> t]

\* no data frame: pd.read_csv never returns a frame without columns
NoTable == [columns |-> <<>>, rows |-> <<>>]

Range(seq) == {seq[i] : i \in 1..Len(seq)}

ColumnIndex(t, c) == CHOOSE i \in 1..Len(t.columns) : t.columns[i] = c

\* lines 70-79
preferred_columns ==
    <<"ticker", "current_up_trend", "current_trend_length", "current_price",
      "1M", "3M", "6M", "1Y">>

\* lines 81-86; a dict iterates in insertion order
PerformanceOrder == <<"1M", "3M", "6M", "1Y">>

performance_column_labels ==
    [c \in Range(PerformanceOrder) |->
        CASE c = "1M" -> "1M Performance"
          [] c = "3M" -> "3M Performance"
          [] c = "6M" -> "6M Performance"
          [] c = "1Y" -> "1Y Performance"]

DisplayLabels == {performance_column_labels[c] : c \in Range(PerformanceOrder)}

\* the preferred columns in the order of the table
AvailableColumns_Mut(t) ==
    SelectSeq(t.columns, LAMBDA c : c \in Range(preferred_columns))

\* line 91
AvailableColumns(t) ==
    SelectSeq(preferred_columns, LAMBDA c : c \in Range(t.columns))

\* line 92
MissingColumns(t) ==
    SelectSeq(preferred_columns, LAMBDA c : c \notin Range(t.columns))

\* df[available_columns]
TakeColumns(t, cols) ==
    [columns |-> cols,
     rows |-> [r \in 1..Len(t.rows) |->
                 [k \in 1..Len(cols) |-> t.rows[r][ColumnIndex(t, cols[k])]]]]

\* a selection that ignores the checkbox
SelectColumns_Mut(t, all) == TakeColumns(t, AvailableColumns(t))

\* lines 88-97
SelectColumns(t, all) ==
    IF all THEN t ELSE TakeColumns(t, AvailableColumns(t))

\* lines 99-101
RenameColumns(t) ==
    [t EXCEPT !.columns =
        [k \in 1..Len(t.columns) |->
            IF t.columns[k] \in DOMAIN performance_column_labels
            THEN performance_column_labels[t.columns[k]]
            ELSE t.columns[k]]]

\* pd.to_numeric(..., errors="coerce") on one cell
ToNumeric(c) == IF c.kind = "str" THEN NaNCell ELSE c

Abs(n) == IF n < 0 THEN 0 - n ELSE n

\* hundredths cut off instead of rounded
RoundedCents_Mut(n, d) == (Abs(n) * 100) \div d

\* the hundredths of |num/den| that the format .2f prints: the nearest, and
\* the even one when two are equally near
RoundedCents(n, d) ==
    LET a == Abs(n) * 100
        q == a \div d
        r == a - q * d
    IN  IF 2 * r > d \/ (2 * r = d /\ q % 2 = 1) THEN q + 1 ELSE q

TwoDigits(k) == Digits[(k \div 10) + 1] \o Digits[(k % 10) + 1]

\* f"{x:.2f}" for a float x that is not NaN
FormatFloat2(c) ==
    IF c.kind = "inf" THEN (IF c.num < 0 THEN "-inf" ELSE "inf")
    ELSE LET q == RoundedCents(c.num, c.den)
         IN  (IF c.num < 0 THEN "-" ELSE "")
                 \o ToString(q \div 100) \o "." \o TwoDigits(q % 100)

\* line 106: lambda x: f"{x:.2f}%" if pd.notna(x) else ""
FormatPercent(c) ==
    IF c.kind # "nan" THEN StrCell(FormatFloat2(c) \o "%") ELSE StrCell("")

\* lines 105-107 for one column label that names exactly one column
FormatColumn(t, label) ==
    [t EXCEPT !.rows =
        [r \in 1..Len(t.rows) |->
            [k \in 1..Len(t.columns) |->
                IF t.columns[k] = label
                THEN FormatPercent(ToNumeric(t.rows[r][k]))
                ELSE t.rows[r][k]]]]

\* df_to_show[display_col] is a DataFrame, not a Series, when several columns
\* carry the label; pd.to_numeric raises TypeError on it
SelectsDataFrame(t, label) ==
    Cardinality({k \in 1..Len(t.columns) : t.columns[k] = label}) > 1

\* lines 103-107, from the i-th entry of performance_column_labels on
RECURSIVE FormatLoop(_, _)
FormatLoop(t, i) ==
    IF i > Len(PerformanceOrder) THEN [raised |-> FALSE, table |-> t]
    ELSE LET display_col == performance_column_labels[PerformanceOrder[i]]
         IN  IF display_col \notin Range(t.columns) THEN FormatLoop(t, i + 1)
             ELSE IF SelectsDataFrame(t, display_col)
                  THEN [raised |-> TRUE, table |-> t]
                  ELSE FormatLoop(FormatColumn(t, display_col), i + 1)

\* lines 88-107: the table to show, or the exception that leaves the script
PresentTable(t, all) == FormatLoop(RenameColumns(SelectColumns(t, all)), 1)

Min(a, b) == IF a < b THEN a ELSE b

\* line 109: df_to_show.head(show_rows)
HeadRows(t, n) == [t EXCEPT !.rows = SubSeq(t.rows, 1, Min(n, Len(t.rows)))]

\* line 114: df_to_show.to_csv(index=False): the header line, then one line
\* per row; a line is kept as its fields and a field as the cell it writes
ToCsv(t) == <<t.columns>> \o t.rows

-----------------------------------------------------------------------------
(* The inputs: folders, files, tables and widget values                    *)

MaxFiles == 3        \* entries of a folder
MaxColumns == 3      \* columns of a table
MaxTableRows == 11   \* rows of the longest table (more than SliderMin)

\* st.slider("Max rows to show", 10, 500, 100)
SliderMin == 10
SliderMax == 500
SliderDefault == 100

SliderChoices == {SliderMin, SliderDefault, SliderMax}

Date2024 == <<"2", "0", "2", "4", "-", "0", "1", "-", "0", "1">>
Date2023 == <<"2", "0", "2", "3", "-", "1", "2", "-", "3", "1">>

Name_a == <<"a", "-">> \o Date2024 \o DotCsv             \* a-2024-01-01.csv
Name_b == <<"b", "-">> \o Date2024 \o DotCsv             \* b-2024-01-01.csv
Name_B == <<"B", "-">> \o Date2024 \o DotCsv             \* B-2024-01-01.csv
Name_c == <<"c", "-">> \o Date2023 \o DotCsv             \* c-2023-12-31.csv
Name_xCSV == <<"x", "-">> \o Date2024 \o <<".", "C", "S", "V">>  \* x-2024-01-01.CSV
Name_notes == <<"n", "o", "t", "e", "s">> \o DotCsv      \* notes.csv
Name_report ==                                           \* report-2024-1-1.csv
    <<"r", "e", "p", "o", "r", "t", "-", "2", "0", "2", "4", "-", "1", "-", "1">>
        \o DotCsv
Name_bak == Name_a \o <<".", "b", "a", "k">>             \* a-2024-01-01.csv.bak

FileNames ==
    {Name_a, Name_b, Name_B, Name_c, Name_xCSV, Name_notes, Name_report, Name_bak}

\* no name: a selectbox without a choice of the user
NoName == <<>>

ColumnNames ==
    {"ticker", "current_price", "1M", "3M", "1M Performance", "volume"}

\* the column lists pd.read_csv can produce: no name twice
ColumnLayouts ==
    UNION {{f \in [1..k -> ColumnNames] :
                \A i, j \in 1..k : i # j => f[i] # f[j]} : k \in 1..MaxColumns}

CellCycle ==
    <<NumCell(99, 8), StrCell("n/a"), NumCell(0 - 1, 8), NaNCell,
      InfCell(1), NumCell(7, 1), NumCell(7, 16)>>

RowCounts == {0, 1, MaxTableRows}

\* the table with these columns and n rows whose cells run through CellCycle
MakeTable(cols, n) ==
    [columns |-> cols,
     rows |-> [r \in 1..n |->
                 [k \in 1..Len(cols) |->
                     CellCycle[((r + k) % Len(CellCycle)) + 1]]]]

Tables == {MakeTable(cols, n) : cols \in ColumnLayouts, n \in RowCounts}

SmallTable ==
    [columns |-> <<"ticker", "1M">>,
     rows |-> <<<<StrCell("AAA"), NumCell(99, 8)>>>>]

\* what pd.read_csv does with a file: a data frame, or an exception
Parsed(t) == [ok |-> TRUE, table |-> t]
Malformed == [ok |-> FALSE, table |-> NoTable]

NoDownload == [data |-> <<>>, file_name |-> NoName, mime |-> ""]

DefaultWidgets ==
    [date |-> NoName, file |-> NoName, rows |-> SliderDefault, all |-> FALSE]

-----------------------------------------------------------------------------
(* The state machine                                                       *)

fsVars == <<caseSensitive, dirKind, entries, content>>
indexVars == <<csv_paths, date_to_files, available_dates>>
selectVars == <<selected_date, files_for_date, selected_file>>
optionVars == <<show_rows, show_all_cols>>
tableVars == <<df_to_show, missing_columns>>
outputVars == <<preview, download>>

\* the state of a script run that has not executed a line yet
FreshRun ==
    /\ pc = "start"
    /\ rendered = {}
    /\ csv_paths = <<>>
    /\ date_to_files = <<>>
    /\ available_dates = <<>>
    /\ selected_date = NoName
    /\ files_for_date = <<>>
    /\ selected_file = NoName
    /\ df = NoTable
    /\ show_rows = 0
    /\ show_all_cols = FALSE
    /\ df_to_show = NoTable
    /\ missing_columns = <<>>
    /\ preview = NoTable
    /\ download = NoDownload

\* a folder a platform can hold: a case-insensitive one has no two names
\* that differ in case only
FolderOk(cs, es) ==
    /\ Cardinality(es) <= MaxFiles
    /\ cs \/ \A x, y \in es : LowerStr(x) = LowerStr(y) => x = y

\* any folder of at most MaxFiles entries, its date-suffixed files either
\* malformed or holding SmallTable
Init ==
    /\ caseSensitive \in BOOLEAN
    /\ dirKind \in {"missing", "file", "dir"}
    /\ entries \in SUBSET FileNames
    /\ dirKind # "dir" => entries = {}
    /\ FolderOk(caseSensitive, entries)
    /\ content \in [entries -> {Malformed, Parsed(SmallTable)}]
    /\ \A e \in entries : ~DATE_SUFFIX_RE_search(e) => content[e] = Malformed
    /\ widgets = DefaultWidgets
    /\ FreshRun

\* the folder of a, b and c, where a holds any table of Tables
InitPresent ==
    /\ caseSensitive = TRUE
    /\ dirKind = "dir"
    /\ entries = {Name_a, Name_b, Name_c}
    /\ \E t \in Tables :
          content = [e \in entries |->
                        IF e = Name_a THEN Parsed(t)
                        ELSE IF e = Name_b THEN Malformed
                        ELSE Parsed(SmallTable)]
    /\ widgets = DefaultWidgets
    /\ FreshRun

\* a folder check that shows the error and goes on (no st.stop())
CheckFolder_Mut ==
    /\ pc = "start"
    /\ rendered' = (IF dirKind # "dir"
                    THEN rendered \cup {"error_folder_not_found"} ELSE rendered)
    /\ pc' = "gather"
    /\ UNCHANGED <<fsVars, widgets, indexVars, selectVars, df, optionVars,
                   tableVars, outputVars>>

\* lines 15-17
CheckFolder ==
    /\ pc = "start"
    /\ IF dirKind # "dir"
       THEN /\ rendered' = rendered \cup {"error_folder_not_found"}
            /\ pc' = "stopped"
       ELSE /\ rendered' = rendered
            /\ pc' = "gather"
    /\ UNCHANGED <<fsVars, widgets, indexVars, selectVars, df, optionVars,
                   tableVars, outputVars>>

\* lines 19-24
GatherFiles ==
    /\ pc = "gather"
    /\ csv_paths' = GatherCsvPaths(entries)
    /\ IF csv_paths' = <<>>
       THEN /\ rendered' = rendered \cup {"warning_no_files"}
            /\ pc' = "stopped"
       ELSE /\ rendered' = rendered
            /\ pc' = "index"
    /\ UNCHANGED <<fsVars, widgets, date_to_files, available_dates, selectVars,
                   df, optionVars, tableVars, outputVars>>

\* lines 26-35
BuildIndex ==
    /\ pc = "index"
    /\ date_to_files' = BuildDateToFiles(csv_paths)
    /\ available_dates' = SortedDatesDesc(DOMAIN date_to_files')
    /\ pc' = "select"
    /\ UNCHANGED <<fsVars, widgets, rendered, csv_paths, selectVars, df,
                   optionVars, tableVars, outputVars>>

\* lines 38-57
SelectControls ==
    /\ pc = "select"
    /\ selected_date' = Selectbox(available_dates, widgets.date)
    /\ files_for_date' = SortedByLowerName(date_to_files[selected_date'])
    /\ selected_file' = Selectbox(files_for_date', widgets.file)
    /\ rendered' = rendered \cup {"date_select", "file_select", "caption"}
    /\ pc' = "load"
    /\ UNCHANGED <<fsVars, widgets, indexVars, df, optionVars, tableVars,
                   outputVars>>

\* a load without the try/except
LoadCsv_Mut ==
    /\ pc = "load"
    /\ IF content[selected_file].ok
       THEN /\ df' = content[selected_file].table
            /\ rendered' = rendered
            /\ pc' = "options"
       ELSE /\ df' = df
            /\ rendered' = rendered \cup {"uncaught_exception"}
            /\ pc' = "raised"
    /\ UNCHANGED <<fsVars, widgets, indexVars, selectVars, optionVars,
                   tableVars, outputVars>>

\* lines 59-63
LoadCsv ==
    /\ pc = "load"
    /\ IF content[selected_file].ok
       THEN /\ df' = content[selected_file].table
            /\ rendered' = rendered
            /\ pc' = "options"
       ELSE /\ df' = df
            /\ rendered' = rendered \cup {"error_read_csv"}
            /\ pc' = "stopped"
    /\ UNCHANGED <<fsVars, widgets, indexVars, selectVars, optionVars,
                   tableVars, outputVars>>

\* lines 65-68
DisplayOptions ==
    /\ pc = "options"
    /\ show_rows' = widgets.rows
    /\ show_all_cols' = widgets.all
    /\ rendered' = rendered \cup {"display_options"}
    /\ pc' = "present"
    /\ UNCHANGED <<fsVars, widgets, indexVars, selectVars, df, tableVars,
                   outputVars>>

\* lines 88-107; an exception of line 105 is caught by nothing in the script
Present ==
    /\ pc = "present"
    /\ LET result == PresentTable(df, show_all_cols)
           missing == IF show_all_cols THEN <<>> ELSE MissingColumns(df)
       IN  /\ missing_columns' = missing
           /\ df_to_show' = result.table
           /\ rendered' = (rendered
                             \cup (IF missing # <<>> THEN {"info_missing_columns"} ELSE {})
                             \cup (IF result.raised THEN {"uncaught_exception"} ELSE {}))
           /\ pc' = IF result.raised THEN "raised" ELSE "render"
    /\ UNCHANGED <<fsVars, widgets, indexVars, selectVars, df, optionVars,
                   outputVars>>

\* a download of the rows shown instead of all rows
Render_Mut ==
    /\ pc = "render"
    /\ preview' = HeadRows(df_to_show, show_rows)
    /\ download' = [data |-> ToCsv(HeadRows(df_to_show, show_rows)),
                    file_name |-> selected_file,
                    mime |-> "text/csv"]
    /\ rendered' = rendered \cup {"dataframe", "download_button"}
    /\ pc' = "done"
    /\ UNCHANGED <<fsVars, widgets, indexVars, selectVars, df, optionVars,
                   tableVars>>

\* lines 109-117
Render ==
    /\ pc = "render"
    /\ preview' = HeadRows(df_to_show, show_rows)
    /\ download' = [data |-> ToCsv(df_to_show),
                    file_name |-> selected_file,
                    mime |-> "text/csv"]
    /\ rendered' = rendered \cup {"dataframe", "download_button"}
    /\ pc' = "done"
    /\ UNCHANGED <<fsVars, widgets, indexVars, selectVars, df, optionVars,
                   tableVars>>

\* the script run has ended: by st.stop(), by its last line, or by an exception
RunEnded == pc \in {"stopped", "done", "raised"}

\* Streamlit runs the script again from the top after a widget changed
Rerun ==
    /\ pc' = "start"
    /\ rendered' = {}
    /\ csv_paths' = <<>>
    /\ date_to_files' = <<>>
    /\ available_dates' = <<>>
    /\ selected_date' = NoName
    /\ files_for_date' = <<>>
    /\ selected_file' = NoName
    /\ df' = NoTable
    /\ show_rows' = 0
    /\ show_all_cols' = FALSE
    /\ df_to_show' = NoTable
    /\ missing_columns' = <<>>
    /\ preview' = NoTable
    /\ download' = NoDownload

\* the user picks another date; the file selectbox has new options then
ChooseDate ==
    /\ RunEnded
    /\ "date_select" \in rendered
    /\ \E d \in Range(available_dates) :
          /\ d # selected_date
          /\ widgets' = [widgets EXCEPT !.date = d, !.file = NoName]
    /\ Rerun
    /\ UNCHANGED fsVars

\* the user picks another file of the selected date
ChooseFile ==
    /\ RunEnded
    /\ "file_select" \in rendered
    /\ \E f \in Range(files_for_date) :
          /\ f # selected_file
          /\ widgets' = [widgets EXCEPT !.date = selected_date, !.file = f]
    /\ Rerun
    /\ UNCHANGED fsVars

\* the user moves the slider of line 67
SetMaxRows ==
    /\ RunEnded
    /\ "display_options" \in rendered
    /\ \E n \in SliderChoices :
          /\ n # show_rows
          /\ widgets' = [widgets EXCEPT !.date = selected_date,
                                        !.file = selected_file, !.rows = n]
    /\ Rerun
    /\ UNCHANGED fsVars

\* the user ticks or unticks the checkbox of line 68
ToggleShowAll ==
    /\ RunEnded
    /\ "display_options" \in rendered
    /\ widgets' = [widgets EXCEPT !.date = selected_date,
                                  !.file = selected_file,
                                  !.all = ~show_all_cols]
    /\ Rerun
    /\ UNCHANGED fsVars

Next ==
    \/ CheckFolder
    \/ GatherFiles
    \/ BuildIndex
    \/ SelectControls
    \/ LoadCsv
    \/ DisplayOptions
    \/ Present
    \/ Render
    \/ ChooseDate
    \/ ChooseFile
    \/ SetMaxRows
    \/ ToggleShowAll

Spec == Init /\ [][Next]_vars

SpecPresent == InitPresent /\ [][Next]_vars

-----------------------------------------------------------------------------
(* Vocabulary of the properties                                            *)

\* the name ends with <4 digits>-<2 digits>-<2 digits>.csv, the extension in
\* any case
EndsWithDateCsv(name) ==
    LET n == Len(name)
    IN  /\ n >= 14
        /\ \A k \in {n - 13, n - 12, n - 11, n - 10, n - 8, n - 7, n - 5, n - 4} :
              name[k] \in {"0", "1", "2", "3", "4", "5", "6", "7", "8", "9"}
        /\ name[n - 9] = "-"
        /\ name[n - 6] = "-"
        /\ name[n - 3] = "."
        /\ name[n - 2] \in {"c", "C"}
        /\ name[n - 1] \in {"s", "S"}
        /\ name[n] \in {"v", "V"}

\* the ten characters in front of the extension
DateOf(name) == SubSeq(name, Len(name) - 13, Len(name) - 4)

\* the run is past line 35
IndexBuilt ==
    pc \in {"select", "load", "options", "present", "render", "done", "raised"}
        \/ "date_select" \in rendered

\* the run is past line 63 with a data frame
Loaded == pc \in {"options", "present", "render", "done", "raised"}

\* present has handed a table to the display and the export
Presented == pc \in {"render", "done"}

PerformanceNames == {"1M", "3M", "6M", "1Y"}

LabelOf(c) ==
    CASE c = "1M" -> "1M Performance"
      [] c = "3M" -> "3M Performance"
      [] c = "6M" -> "6M Performance"
      [] c = "1Y" -> "1Y Performance"
      [] OTHER -> c

PreferredIndex(c) == CHOOSE i \in 1..Len(preferred_columns) : preferred_columns[i] = c

\* the column of df that column k of df_to_show was taken from
SourceColumn(k) ==
    IF show_all_cols THEN k
    ELSE CHOOSE i \in 1..Len(df.columns) :
             /\ df.columns[i] \in Range(preferred_columns)
             /\ LabelOf(df.columns[i]) = df_to_show.columns[k]

\* text is num/den with exactly two decimals, a nearest one, and a % sign
IsPercentOf(text, num, den) ==
    \E q \in {(Abs(num) * 100) \div den, (Abs(num) * 100) \div den + 1} :
        /\ 2 * Abs(Abs(num) * 100 - q * den) <= den
        /\ text = (IF num < 0 THEN "-" ELSE "") \o ToString(q \div 100) \o "."
                      \o ToString((q \div 10) % 10) \o ToString(q % 10) \o "%"

-----------------------------------------------------------------------------
(* C1 *)

Descending(dates) ==
    \A i, j \in 1..Len(dates) : i < j => StrLess(dates[j], dates[i])

AscendingByLowerName(files) ==
    \A i, j \in 1..Len(files) :
        i < j => ~StrLess(LowerStr(files[j]), LowerStr(files[i]))

\* C1: once the index is built, the dates are listed in strictly descending
\* lexicographic order and are exactly the keys of the index; the files of
\* every date, sorted as line 43 sorts them, are exactly the files filed
\* under that date, in ascending order of the lowercased name, and the file
\* list shown for the selected date is that list.
C1_IndexOrdered ==
    IndexBuilt =>
        /\ Descending(available_dates)
        /\ Range(available_dates) = DOMAIN date_to_files
        /\ \A d \in DOMAIN date_to_files :
              LET fs == SortedByLowerName(date_to_files[d])
              IN  /\ AscendingByLowerName(fs)
                  /\ Len(fs) = Len(date_to_files[d])
                  /\ Range(fs) = {e \in Range(csv_paths) : DateOf(e) = d}
        /\ selected_file # NoName =>
              /\ AscendingByLowerName(files_for_date)
              /\ Range(files_for_date) = {e \in Range(csv_paths) : DateOf(e) = selected_date}
              /\ Len(files_for_date) = Cardinality(Range(files_for_date))

C1_Witness ==
    /\ entries = {Name_a, Name_b, Name_c}
    /\ available_dates = <<Date2024, Date2023>>
    /\ selected_date = Date2024
    /\ files_for_date = <<Name_a, Name_b>>

(* C2 *)

\* C2: once the folder has been globbed, every entry whose name ends with
\* <4 digits>-<2 digits>-<2 digits>.csv, the extension in any case, is among
\* the gathered paths, and once the index is built it is filed under a date.
C2_EveryDatedCsvDiscovered ==
    /\ (dirKind = "dir" /\ pc \notin {"start", "gather"}) =>
          \A e \in entries : EndsWithDateCsv(e) => e \in Range(csv_paths)
    /\ IndexBuilt =>
          \A e \in entries :
              EndsWithDateCsv(e) =>
                  \E d \in DOMAIN date_to_files : e \in Range(date_to_files[d])

(* C3 *)

\* C3: in a built index no key maps to an empty list; every entry of a list
\* is an entry of the folder whose name ends with the date suffix, is filed
\* under the date in front of its extension, and occurs nowhere else in the
\* index; an entry whose name does not end with the suffix is under no key.
C3_IndexEntriesMatch ==
    IndexBuilt =>
        /\ DOMAIN date_to_files # {}
        /\ \A d \in DOMAIN date_to_files :
              /\ date_to_files[d] # <<>>
              /\ \A i \in 1..Len(date_to_files[d]) :
                    LET e == date_to_files[d][i]
                    IN  /\ e \in entries
                        /\ EndsWithDateCsv(e)
                        /\ DateOf(e) = d
                        /\ \A d2 \in DOMAIN date_to_files :
                              \A j \in 1..Len(date_to_files[d2]) :
                                  date_to_files[d2][j] = e => (d2 = d /\ j = i)
        /\ \A e \in entries :
              ~EndsWithDateCsv(e) =>
                  \A d \in DOMAIN date_to_files : e \notin Range(date_to_files[d])

C3_Witness ==
    /\ IndexBuilt
    /\ entries = {Name_a, Name_notes, Name_report}
    /\ DOMAIN date_to_files = {Date2024}
    /\ date_to_files[Date2024] = <<Name_a>>

(* C4 *)

\* nothing of lines 26-117 has happened
NothingBuilt ==
    /\ date_to_files = <<>>
    /\ available_dates = <<>>
    /\ selected_date = NoName
    /\ selected_file = NoName
    /\ df = NoTable
    /\ df_to_show = NoTable
    /\ preview = NoTable
    /\ download = NoDownload

\* C4: when OUTPUT_DIR is missing or not a directory, the run ends stopped
\* with the folder-not-found error as its only output; when it is a
\* directory without an entry that ends with the date suffix, the run ends
\* stopped with the no-files warning as its only output; in both no index,
\* selection, data frame, preview or download exists and no step or widget
\* interaction is possible any more.
C4_ScanFailuresStop ==
    /\ (dirKind # "dir" /\ pc # "start") =>
          /\ pc = "stopped"
          /\ rendered = {"error_folder_not_found"}
          /\ NothingBuilt
          /\ ~ENABLED Next
    /\ (dirKind = "dir" /\ pc \notin {"start", "gather"}
            /\ \A e \in entries : ~EndsWithDateCsv(e)) =>
          /\ pc = "stopped"
          /\ rendered = {"warning_no_files"}
          /\ NothingBuilt
          /\ ~ENABLED Next

C4_Witness ==
    /\ dirKind = "dir"
    /\ entries = {Name_notes, Name_report}
    /\ pc = "stopped"
    /\ rendered = {"warning_no_files"}

(* C5 *)

\* C5 as stated: with "Show all columns" ticked, the table handed to the
\* display and the export is the loaded table, names and cells unchanged.
C5_ShowAllPassesThrough ==
    (show_all_cols /\ Presented) =>
        /\ df_to_show = df
        /\ pc = "done" => download.data = <<df.columns>> \o df.rows

\* C5, amended: with "Show all columns" ticked, the table that present
\* builds keeps every column of the loaded table in the table's order and
\* every row; a column named 1M, 3M, 6M or 1Y is renamed to its display
\* label and every other column keeps its name; the cells of a column that
\* then carries no display label are unchanged, and the cells of a column
\* that carries one are percentage texts; the preview and the export carry
\* these column names.
C5_ShowAllKeepsColumnsRenamesPerformance ==
    /\ (show_all_cols /\ pc \in {"render", "done", "raised"}) =>
          /\ Len(df_to_show.columns) = Len(df.columns)
          /\ Len(df_to_show.rows) = Len(df.rows)
          /\ \A k \in 1..Len(df.columns) :
                df_to_show.columns[k] = LabelOf(df.columns[k])
          /\ \A r \in 1..Len(df.rows) : \A k \in 1..Len(df.columns) :
                df_to_show.columns[k] \notin DisplayLabels =>
                    df_to_show.rows[r][k] = df.rows[r][k]
    /\ (show_all_cols /\ Presented) =>
          \A r \in 1..Len(df.rows) : \A k \in 1..Len(df.columns) :
              df_to_show.columns[k] \in DisplayLabels =>
                  /\ df_to_show.rows[r][k].kind = "str"
                  /\ df.rows[r][k].kind = "num" =>
                        IsPercentOf(df_to_show.rows[r][k].text,
                                    df.rows[r][k].num, df.rows[r][k].den)
    /\ (show_all_cols /\ pc = "done") =>
          /\ preview.columns = df_to_show.columns
          /\ download.data[1] = df_to_show.columns

C5_Witness ==
    /\ pc = "done"
    /\ show_all_cols
    /\ df.columns = <<"ticker", "1M", "volume">>
    /\ Len(df.rows) = MaxTableRows
    /\ df_to_show.columns = <<"ticker", "1M Performance", "volume">>
    /\ df_to_show # df

(* C6 *)

\* C6: with "Show all columns" unticked, present never raises; the columns
\* of the table it builds are the preferred columns that the loaded table
\* has, each once, in the order of the preferred list, a performance column
\* under its display label; every row is kept; the missing list is the
\* preferred columns the table lacks, in the order of the preferred list,
\* and it is reported exactly when it is not empty.
C6_PreferredColumnsInPreferredOrder ==
    (~show_all_cols /\ pc \in {"render", "done", "raised"}) =>
        LET have == Range(preferred_columns) \cap Range(df.columns)
            lack == Range(preferred_columns) \ Range(df.columns)
        IN  /\ pc # "raised"
            /\ Len(df_to_show.columns) = Cardinality(have)
            /\ {df_to_show.columns[k] : k \in 1..Len(df_to_show.columns)}
                   = {LabelOf(c) : c \in have}
            /\ \A k1, k2 \in 1..Len(df_to_show.columns) :
                  k1 < k2 =>
                      PreferredIndex(df.columns[SourceColumn(k1)])
                          < PreferredIndex(df.columns[SourceColumn(k2)])
            /\ Len(df_to_show.rows) = Len(df.rows)
            /\ Range(missing_columns) = lack
            /\ \A i, j \in 1..Len(missing_columns) :
                  i < j => PreferredIndex(missing_columns[i])
                               < PreferredIndex(missing_columns[j])
            /\ ("info_missing_columns" \in rendered) = (lack # {})

C6_Witness ==
    /\ pc = "done"
    /\ ~show_all_cols
    /\ df.columns = <<"1M", "current_price", "ticker">>
    /\ df_to_show.columns = <<"ticker", "current_price", "1M Performance">>
    /\ missing_columns =
           <<"current_up_trend", "current_trend_length", "3M", "6M", "1Y">>

(* C7 *)

\* C7 as stated: in the presented table, every cell of a column that was
\* renamed from 1M, 3M, 6M or 1Y is the two-decimal percentage of its number,
\* or empty when the cell is missing or not numeric; every cell of every
\* other column is unchanged.
C7_OnlyRenamedColumnsFormatted ==
    Presented =>
        \A r \in 1..Len(df_to_show.rows) : \A k \in 1..Len(df_to_show.columns) :
            LET src == df.rows[r][SourceColumn(k)]
                out == df_to_show.rows[r][k]
            IN  IF df.columns[SourceColumn(k)] \in PerformanceNames
                THEN /\ src.kind = "num" =>
                            /\ out.kind = "str"
                            /\ IsPercentOf(out.text, src.num, src.den)
                     /\ src.kind \in {"nan", "str"} => out = StrCell("")
                ELSE out = src

\* C7, amended: in the presented table, every cell of a column that carries
\* a performance display label, whether renamed from 1M, 3M, 6M or 1Y or
\* named so in the file, is the two-decimal percentage of its finite number
\* (a nearest two-decimal value, then %), inf% or -inf% for an infinity, and
\* empty when the cell is missing or not numeric; every cell of every other
\* column is unchanged.
C7_LabelledColumnsFormatted ==
    Presented =>
        \A r \in 1..Len(df_to_show.rows) : \A k \in 1..Len(df_to_show.columns) :
            LET src == df.rows[r][SourceColumn(k)]
                out == df_to_show.rows[r][k]
            IN  IF df_to_show.columns[k] \in DisplayLabels
                THEN /\ src.kind = "num" =>
                            /\ out.kind = "str"
                            /\ IsPercentOf(out.text, src.num, src.den)
                     /\ src.kind = "inf" =>
                            out = StrCell(IF src.num < 0 THEN "-inf%" ELSE "inf%")
                     /\ src.kind \in {"nan", "str"} => out = StrCell("")
                ELSE out = src

C7_Witness ==
    /\ pc = "done"
    /\ show_all_cols
    /\ "1M" \in Range(df.columns)
    /\ "1M Performance" \notin Range(df.columns)
    /\ \E r \in 1..Len(df.rows) : \E k \in 1..Len(df.columns) :
          /\ df.columns[k] = "1M"
          /\ df.rows[r][k] = NumCell(7, 16)
          /\ df_to_show.rows[r][k] = StrCell("0.44%")
    /\ \E r \in 1..Len(df.rows) : \E k \in 1..Len(df.columns) :
          /\ df.columns[k] = "1M"
          /\ df.rows[r][k] = NumCell(99, 8)
          /\ df_to_show.rows[r][k] = StrCell("12.38%")
    /\ \E r \in 1..Len(df.rows) : \E k \in 1..Len(df.columns) :
          /\ df.columns[k] = "1M"
          /\ df.rows[r][k] = StrCell("n/a")
          /\ df_to_show.rows[r][k] = StrCell("")

(* C8 *)

\* C8: when the run is done, the preview has the columns of the presented
\* table and exactly its first min(show_rows, N) rows, N the number of rows
\* of the loaded table; the export is the header line of the presented table
\* followed by all its N rows, whatever show_rows is.
C8_PreviewCappedExportComplete ==
    pc = "done" =>
        LET n == Len(df.rows)
            shown == IF show_rows < n THEN show_rows ELSE n
        IN  /\ show_rows \in SliderMin..SliderMax
            /\ Len(df_to_show.rows) = n
            /\ preview.columns = df_to_show.columns
            /\ Len(preview.rows) = shown
            /\ \A r \in 1..shown : preview.rows[r] = df_to_show.rows[r]
            /\ Len(download.data) = n + 1
            /\ download.data[1] = df_to_show.columns
            /\ \A r \in 1..n : download.data[r + 1] = df_to_show.rows[r]
            /\ download.file_name = selected_file

C8_Witness ==
    /\ pc = "done"
    /\ show_all_cols
    /\ Len(df.rows) = MaxTableRows
    /\ show_rows = SliderMin
    /\ Len(preview.rows) = SliderMin
    /\ Len(download.data) = MaxTableRows + 1

(* C9 *)

\* C9: when pd.read_csv fails on the selected file, the run ends stopped
\* with the read error shown and no uncaught exception; no data frame,
\* preview or download exists; the index and both selectboxes are there,
\* and every other file or date can be chosen; and whenever the selected
\* file is well formed, whatever happened in earlier runs, its table is the
\* loaded data frame, no read error is shown, and the finished run has a
\* preview and a download of that file.
C9_LoadFailureCaught ==
    /\ (selected_file # NoName /\ pc # "load" /\ ~content[selected_file].ok) =>
          /\ pc = "stopped"
          /\ "error_read_csv" \in rendered
          /\ "uncaught_exception" \notin rendered
          /\ df = NoTable
          /\ preview = NoTable
          /\ download = NoDownload
          /\ rendered \cap {"dataframe", "download_button", "display_options"} = {}
          /\ {"date_select", "file_select"} \subseteq rendered
          /\ Range(available_dates) = DOMAIN date_to_files
          /\ selected_file \in Range(date_to_files[selected_date])
          /\ Len(files_for_date) > 1 => ENABLED ChooseFile
          /\ Len(available_dates) > 1 => ENABLED ChooseDate
    /\ (selected_file # NoName /\ pc # "load" /\ content[selected_file].ok) =>
          /\ pc \in {"options", "present", "render", "done", "raised"}
          /\ df = content[selected_file].table
          /\ "error_read_csv" \notin rendered
          /\ pc = "done" =>
                /\ {"dataframe", "download_button"} \subseteq rendered
                /\ preview.columns = df_to_show.columns
                /\ download.file_name = selected_file
                /\ Len(download.data) = Len(df.rows) + 1

\* the only date's first file is malformed, so the first run failed on it;
\* the user then chose another file of that date, which is presented
C9_Witness ==
    /\ pc = "done"
    /\ Len(available_dates) = 1
    /\ ~content[files_for_date[1]].ok
    /\ selected_file # files_for_date[1]
    /\ widgets.file = selected_file
    /\ content[selected_file].ok
    /\ "download_button" \in rendered

(* C10 *)

\* C10: for every data frame that was loaded, with either value of the
\* checkbox, present completes and the finished run has a preview and an
\* export; no run ends with an uncaught exception.
C10_NoUnhandledFault ==
    /\ pc # "raised"
    /\ "uncaught_exception" \notin rendered
    /\ (Loaded /\ pc \notin {"options", "present"}) => Presented
    /\ pc = "done" =>
          /\ {"dataframe", "download_button"} \subseteq rendered
          /\ download # NoDownload

====
